---- MODULE Spec2Model ----
(***************************************************************************)
(* Model of the Lambda handler of src/index.mjs: one invocation of the     *)
(* handler, from the inbound event to the settlement of the promise it     *)
(* returns, together with the events of the single outbound HTTPS request. *)
(*                                                                         *)
(* Text is a sequence of one-character strings.  Bytes received from the   *)
(* upstream are sequences of byte tokens: an ASCII byte is written as its  *)
(* character, and "xC3" "xA9" are the two bytes of the UTF-8 encoding of   *)
(* U+00E9.                                                                 *)
(***************************************************************************)
EXTENDS Integers, Sequences, FiniteSets, TLC

(***************************************************************************)
(* Bounds of the model.                                                    *)
(***************************************************************************)
\* Largest number of 'data' events delivered on the response stream.
MaxChunks == 2

\* Longest content and largest token budget given to the token budgeter, next
\* to the handler's own budget and a few chosen contents.
MaxContentLen == 16
MaxBudget == 4

(***************************************************************************)
(* String primitives of the platform (methods of String.prototype).        *)
(***************************************************************************)
\* Characters String.prototype.trim removes.
WhiteSpace == {" ", "\n", "\r", "\t"}

\* s.substring(from) / s.slice(from) for 0 <= from, counted from 0.
DropFirst(s, n) == SubSeq(s, n + 1, Len(s))

\* s.substring(0, n)
TakeFirst(s, n) == SubSeq(s, 1, IF n < Len(s) THEN n ELSE Len(s))

\* s.startsWith(p)
StartsWith(s, p) == Len(s) >= Len(p) /\ SubSeq(s, 1, Len(p)) = p

\* s.endsWith(p)
EndsWith(s, p) ==
    Len(s) >= Len(p) /\ SubSeq(s, Len(s) - Len(p) + 1, Len(s)) = p

RECURSIVE TrimStart(_)
TrimStart(s) ==
    IF s /= <<>> /\ s[1] \in WhiteSpace THEN TrimStart(Tail(s)) ELSE s

RECURSIVE TrimEnd(_)
TrimEnd(s) ==
    IF s /= <<>> /\ s[Len(s)] \in WhiteSpace
    THEN TrimEnd(SubSeq(s, 1, Len(s) - 1))
    ELSE s

\* s.trim()
Trim(s) == TrimEnd(TrimStart(s))

\* s.split('\n'): the pieces between newlines; n newlines give n+1 pieces.
RECURSIVE SplitLines(_)
SplitLines(s) ==
    IF \E i \in 1..Len(s) : s[i] = "\n"
    THEN LET i == CHOOSE k \in 1..Len(s) :
                      s[k] = "\n" /\ \A j \in 1..(k - 1) : s[j] /= "\n"
         IN  <<SubSeq(s, 1, i - 1)>> \o SplitLines(DropFirst(s, i))
    ELSE <<s>>

\* s is p followed by something.
IsPrefixOf(p, s) == StartsWith(s, p)

(***************************************************************************)
(* Buffer.prototype.toString(): UTF-8 decoding of one chunk.  A lead byte  *)
(* without its continuation byte, and a continuation byte without its lead *)
(* byte, each decode to the replacement character U+FFFD.                  *)
(***************************************************************************)
Utf8Decode(bytes) ==
    LET n == Len(bytes)
        \* byte i is the continuation byte of the lead byte before it
        Paired(i) == i > 1 /\ bytes[i] = "xA9" /\ bytes[i - 1] = "xC3"
        Char(i) ==
            IF bytes[i] = "xC3"
            THEN IF i < n /\ bytes[i + 1] = "xA9" THEN "U+00E9" ELSE "U+FFFD"
            ELSE IF bytes[i] = "xA9" THEN "U+FFFD"
            ELSE bytes[i]
        marked == [i \in 1..n |-> [c |-> Char(i), keep |-> ~Paired(i)]]
        Kept(m) == m.keep
        kept == SelectSeq(marked, Kept)
    IN  [k \in 1..Len(kept) |-> kept[k].c]

(***************************************************************************)
(* Literals of the source.                                                 *)
(***************************************************************************)
DATA_PREFIX ==
    <<"d", "a", "t", "a", ":", " ">>

DONE_SENTINEL ==
    <<"[", "D", "O", "N", "E", "]">>

DONE_FRAME ==
    <<"d", "a", "t", "a", ":", " ", "[", "D", "O", "N", "E", "]", "\n", "\n">>

FRAME_OPEN ==
    <<"d", "a", "t", "a", ":", " ", "{", "\"", "c", "o", "n", "t", "e",
      "n", "t", "\"", ":">>

FRAME_CLOSE ==
    <<"}", "\n", "\n">>

TRUNCATION_MARKER ==
    <<"\n", "\n", "[", ".", ".", ".", " ", "m", "i", "d", "d", "l", "e",
      " ", "s", "e", "c", "t", "i", "o", "n", " ", "t", "r", "u", "n", "c",
      "a", "t", "e", "d", " ", "f", "o", "r", " ", "l", "e", "n", "g", "t",
      "h", " ", ".", ".", ".", "]", "\n", "\n">>

systemPrompt ==
    <<"Y", "o", "u", " ", "a", "r", "e", " ", "a", "n", " ", "A", "I", " ",
      "w", "r", "i", "t", "i", "n", "g", " ", "a", "s", "s", "i", "s", "t",
      "a", "n", "t", " ", "t", "h", "a", "t", " ", "h", "e", "l", "p", "s",
      " ", "e", "d", "i", "t", " ", "a", "n", "d", " ", "i", "m", "p", "r",
      "o", "v", "e", " ", "t", "e", "x", "t", ".">>

SEL_A ==
    <<"E", "d", "i", "t", " ", "t", "h", "e", " ", "s", "e", "l", "e", "c",
      "t", "e", "d", " ", "t", "e", "x", "t", ":", " ", "\"">>

SEL_B ==
    <<"\"", "\n", "\n", "U", "s", "e", "r", " ", "r", "e", "q", "u", "e",
      "s", "t", ":", " ">>

SEL_C ==
    <<"\n", "\n", "F", "u", "l", "l", " ", "d", "o", "c", "u", "m", "e",
      "n", "t", " ", "c", "o", "n", "t", "e", "x", "t", ":", " ">>

DOC_A ==
    <<"E", "d", "i", "t", " ", "t", "h", "i", "s", " ", "d", "o", "c", "u",
      "m", "e", "n", "t", " ", "b", "a", "s", "e", "d", " ", "o", "n", " ",
      "t", "h", "e", " ", "r", "e", "q", "u", "e", "s", "t", ":", " ">>

DOC_B ==
    <<"\n", "\n", "D", "o", "c", "u", "m", "e", "n", "t", ":", " ">>

MAX_CONTENT_TOKENS == 22000

(***************************************************************************)
(* Shapes of the payloads the upstream sends on its data lines.            *)
(***************************************************************************)
DELTA_OPEN ==
    <<"{", "\"", "c", "h", "o", "i", "c", "e", "s", "\"", ":", "[", "{",
      "\"", "d", "e", "l", "t", "a", "\"", ":", "{", "\"", "c", "o", "n",
      "t", "e", "n", "t", "\"", ":">>

DELTA_CLOSE ==
    <<"}", "}", "]", "}">>

DELTA_EMPTY ==
    <<"{", "\"", "c", "h", "o", "i", "c", "e", "s", "\"", ":", "[", "{",
      "\"", "d", "e", "l", "t", "a", "\"", ":", "{", "}", "}", "]", "}">>

(***************************************************************************)
(* JSON text of a string value, as JSON.stringify writes it and JSON.parse *)
(* reads it: the value between double quotes, with the double quote, the   *)
(* backslash and the newline escaped.                                      *)
(***************************************************************************)
RECURSIVE EscapeChars(_)
EscapeChars(s) ==
    IF s = <<>> THEN <<>>
    ELSE (CASE s[1] = "\"" -> <<"\\", "\"">>
            [] s[1] = "\\" -> <<"\\", "\\">>
            [] s[1] = "\n" -> <<"\\", "n">>
            [] OTHER -> <<s[1]>>) \o EscapeChars(Tail(s))

\* Variant: the text between quotes as it is, nothing escaped.
StringifyStringRaw(s) == <<"\"">> \o s \o <<"\"">>

\* JSON.stringify(str)
StringifyString(s) == <<"\"">> \o EscapeChars(s) \o <<"\"">>

\* The characters between the quotes of a JSON string; ok is FALSE where
\* JSON.parse throws (unescaped quote or control character, bad escape).
RECURSIVE UnescapeChars(_)
UnescapeChars(s) ==
    IF s = <<>> THEN [ok |-> TRUE, v |-> <<>>]
    ELSE IF s[1] = "\\"
         THEN IF Len(s) >= 2 /\ s[2] \in {"\"", "\\", "n"}
              THEN LET r == UnescapeChars(DropFirst(s, 2))
                       c == IF s[2] = "n" THEN "\n" ELSE s[2]
                   IN  [ok |-> r.ok, v |-> <<c>> \o r.v]
              ELSE [ok |-> FALSE, v |-> <<>>]
    ELSE IF s[1] \in {"\"", "\n", "\r", "\t"}
         THEN [ok |-> FALSE, v |-> <<>>]
    ELSE LET r == UnescapeChars(Tail(s))
         IN  [ok |-> r.ok, v |-> <<s[1]>> \o r.v]

\* JSON.parse of a JSON string literal.
ParseString(s) ==
    IF Len(s) >= 2 /\ s[1] = "\"" /\ s[Len(s)] = "\""
    THEN UnescapeChars(SubSeq(s, 2, Len(s) - 1))
    ELSE [ok |-> FALSE, v |-> <<>>]

(***************************************************************************)
(* JSON.parse(data) of a line payload of the upstream stream, followed by  *)
(* the read of parsed.choices?.[0]?.delta?.content.  The payloads that     *)
(* decode are the three shapes the chunks of the model carry: a delta with *)
(* a string content, a delta without content, and the empty object; every  *)
(* other text of the model's chunks is not JSON and makes JSON.parse       *)
(* throw (ok = FALSE).  hasContent is the truthiness of the content read.  *)
(***************************************************************************)
ParseDelta(data) ==
    IF data = DELTA_EMPTY \/ data = <<"{", "}">>
    THEN [ok |-> TRUE, hasContent |-> FALSE, content |-> <<>>]
    ELSE IF /\ StartsWith(data, DELTA_OPEN)
            /\ EndsWith(data, DELTA_CLOSE)
            /\ Len(data) >= Len(DELTA_OPEN) + Len(DELTA_CLOSE)
         THEN LET lit == SubSeq(data, Len(DELTA_OPEN) + 1,
                                Len(data) - Len(DELTA_CLOSE))
                  r   == ParseString(lit)
              IN  [ok |-> r.ok,
                   hasContent |-> r.ok /\ r.v /= <<>>,
                   content |-> r.v]
    ELSE [ok |-> FALSE, hasContent |-> FALSE, content |-> <<>>]

(***************************************************************************)
(* Token budget (estimateTokens, truncateContent).                         *)
(***************************************************************************)
\* Variant: the quotient rounded down, plus one.
estimateTokensPlusOne(text) == (Len(text) \div 4) + 1

\* Math.ceil(text.length / 4)
estimateTokens(text) == (Len(text) + 3) \div 4

\* Math.floor(maxChars * 0.6) and Math.floor(maxChars * 0.2)
firstPortion(maxTokens) == ((maxTokens * 4) * 6) \div 10
\* Variant: the tail takes the head's share of the budget.
lastPortionAsFirst(maxTokens) == ((maxTokens * 4) * 6) \div 10

lastPortion(maxTokens) == ((maxTokens * 4) * 2) \div 10

\* Variant: the tail slice starts one character late.
LastCharsStartingLate(content, n) ==
    DropFirst(content,
              IF Len(content) - n + 1 > 0 THEN Len(content) - n + 1 ELSE 0)

\* content.substring(content.length - lastPortion): a negative start is 0.
LastChars(content, n) ==
    DropFirst(content, IF Len(content) - n > 0 THEN Len(content) - n ELSE 0)

truncateContent(content, maxTokens) ==
    IF estimateTokens(content) <= maxTokens
    THEN content
    ELSE TakeFirst(content, firstPortion(maxTokens))
           \o TRUNCATION_MARKER
           \o LastChars(content, lastPortion(maxTokens))

(***************************************************************************)
(* The 'data' listener of a 200 response: one line, then one chunk.        *)
(***************************************************************************)
\* Variant: the sentinel is not recognised and goes to JSON.parse.
ReframeLineNoSentinel(buf, line) ==
    IF ~StartsWith(line, DATA_PREFIX) THEN buf
    ELSE LET data == Trim(DropFirst(line, 6))
         IN  IF data = <<>> THEN buf
             ELSE LET parsed == ParseDelta(data)
                  IN  IF parsed.ok /\ parsed.hasContent
                      THEN buf \o FRAME_OPEN
                               \o StringifyString(parsed.content)
                               \o FRAME_CLOSE
                      ELSE buf

\* Variant: a payload that fails to decode empties the output buffer.
ReframeLineResetOnFailure(buf, line) ==
    IF ~StartsWith(line, DATA_PREFIX) THEN buf
    ELSE LET data == Trim(DropFirst(line, 6))
         IN  IF data = DONE_SENTINEL THEN buf \o DONE_FRAME
             ELSE IF data = <<>> THEN buf
             ELSE LET parsed == ParseDelta(data)
                  IN  IF ~parsed.ok THEN <<>>
                      ELSE IF parsed.hasContent
                      THEN buf \o FRAME_OPEN
                               \o StringifyString(parsed.content)
                               \o FRAME_CLOSE
                      ELSE buf

\* Body of the for-loop: the output buffer after one line.
ReframeLine(buf, line) ==
    IF ~StartsWith(line, DATA_PREFIX) THEN buf
    ELSE LET data == Trim(DropFirst(line, 6))
         IN  IF data = DONE_SENTINEL THEN buf \o DONE_FRAME
             ELSE IF data = <<>> THEN buf
             ELSE LET parsed == ParseDelta(data)
                  IN  IF parsed.ok /\ parsed.hasContent
                      THEN buf \o FRAME_OPEN
                               \o StringifyString(parsed.content)
                               \o FRAME_CLOSE
                      ELSE buf

RECURSIVE ReframeLines(_, _)
ReframeLines(buf, lines) ==
    IF lines = <<>> THEN buf
    ELSE ReframeLines(ReframeLine(buf, Head(lines)), Tail(lines))

\* Variant: the first line of every chunk is taken for the rest of a line
\* of the chunk before and passed over.
ReframeChunkSkippingFirstLine(buf, chunk) ==
    ReframeLines(buf, Tail(SplitLines(Utf8Decode(chunk))))

\* Variant: the buffer is assigned, not appended to, on every chunk.
ReframeChunkFresh(buf, chunk) ==
    ReframeLines(<<>>, SplitLines(Utf8Decode(chunk)))

\* streamResponse after the listener has run on one chunk.
ReframeChunk(buf, chunk) == ReframeLines(buf, SplitLines(Utf8Decode(chunk)))

(***************************************************************************)
(* Values.  A field of the parsed request body is absent, null, a number   *)
(* or a string; a field of a JSON response body is a fixed message (str),  *)
(* a text computed by the handler (chars) or a number (num).               *)
(***************************************************************************)
Absent == [t |-> "absent", s |-> <<>>, n |-> 0]
Null == [t |-> "null", s |-> <<>>, n |-> 0]
Num(k) == [t |-> "num", s |-> <<>>, n |-> k]
Str(text) == [t |-> "str", s |-> text, n |-> 0]

\* !v
Falsy(v) ==
    \/ v.t \in {"absent", "null"}
    \/ v.t = "num" /\ v.n = 0
    \/ v.t = "str" /\ v.s = <<>>

S(message) == [str |-> message, chars |-> <<>>, num |-> 0]
C(text) == [str |-> "", chars |-> text, num |-> 0]
N(k) == [str |-> "", chars |-> <<>>, num |-> k]

\* A response body that is JSON.stringify(value), and one that is raw text.
NoValue == [none |-> N(0)]
JsonBody(value) == [kind |-> "json", text |-> <<>>, value |-> value]
TextBody(text) == [kind |-> "text", text |-> text, value |-> NoValue]

(***************************************************************************)
(* Response headers.                                                       *)
(***************************************************************************)
PreflightHeaders ==
    ("Access-Control-Allow-Origin" :> "*")
      @@ ("Access-Control-Allow-Methods" :> "POST, OPTIONS")
      @@ ("Access-Control-Allow-Headers" :> "Content-Type, Authorization")

\* Variant: the JSON responses carry no CORS header.
JsonHeadersNoCors == ("Content-Type" :> "application/json")

JsonHeaders ==
    ("Content-Type" :> "application/json")
      @@ ("Access-Control-Allow-Origin" :> "*")

StreamHeaders ==
    ("Content-Type" :> "text/event-stream")
      @@ ("Access-Control-Allow-Origin" :> "*")
      @@ ("Cache-Control" :> "no-cache")

(***************************************************************************)
(* The response objects of the handler, one per return / resolve.          *)
(***************************************************************************)
PreflightResponse ==
    [statusCode |-> 200, headers |-> PreflightHeaders, body |-> TextBody(<<>>)]

InvalidJsonResponse ==
    [statusCode |-> 400, headers |-> JsonHeaders,
     body |-> JsonBody([error |-> S("Invalid JSON in request body")])]

PromptRequiredResponse ==
    [statusCode |-> 400, headers |-> JsonHeaders,
     body |-> JsonBody([error |-> S("Prompt is required")])]

MissingKeyResponse ==
    [statusCode |-> 500, headers |-> JsonHeaders,
     body |-> JsonBody([error |-> S("Server configuration error"),
                        details |-> S("API key not configured")])]

UpstreamErrorResponse(status, errBody) ==
    [statusCode |-> status, headers |-> JsonHeaders,
     body |-> JsonBody([error |-> S("OpenAI API error"),
                        statusCode |-> N(status),
                        details |-> C(errBody)])]

\* Variant: the terminal frame is added to the body at the end.
StreamEndResponseClosing(buf) ==
    [statusCode |-> 200, headers |-> StreamHeaders,
     body |-> TextBody(buf \o DONE_FRAME)]

StreamEndResponse(buf) ==
    [statusCode |-> 200, headers |-> StreamHeaders, body |-> TextBody(buf)]

StreamErrorResponse(err) ==
    [statusCode |-> 500, headers |-> JsonHeaders,
     body |-> JsonBody([error |-> S("OpenAI API error"),
                        details |-> S(err.message),
                        errorName |-> S(err.name)])]

RequestErrorResponse(err) ==
    [statusCode |-> 500, headers |-> JsonHeaders,
     body |-> JsonBody([error |-> S("Request failed"),
                        details |-> S(err.message),
                        errorName |-> S(err.name),
                        errorCode |-> S(err.code)])]

WriteErrorResponse(err) ==
    [statusCode |-> 500, headers |-> JsonHeaders,
     body |-> JsonBody([error |-> S("Failed to send request"),
                        details |-> S(err.message)])]

CatchAllResponse(err) ==
    [statusCode |-> 500, headers |-> JsonHeaders,
     body |-> JsonBody([error |-> S("Internal server error"),
                        details |-> S(err.message),
                        errorName |-> S(err.name),
                        stack |-> S("stack")])]

NoResponse ==
    [statusCode |-> 0, headers |-> ("none" :> "none"), body |-> TextBody(<<>>)]

(***************************************************************************)
(* Exceptions and errors: name, message and code of the Error object.      *)
(***************************************************************************)
DestructureNullError ==
    [name |-> "TypeError", code |-> "",
     message |-> "Cannot destructure property 'prompt' of 'parsedBody' as it is null."]

TrimNotFunctionError ==
    [name |-> "TypeError", code |-> "", message |-> "trim is not a function"]

ReadLengthError ==
    [name |-> "TypeError", code |-> "",
     message |-> "Cannot read properties of undefined (reading 'length')"]

InvalidHeaderError ==
    [name |-> "TypeError", code |-> "ERR_INVALID_CHAR",
     message |-> "Invalid character in header content [\"Authorization\"]"]

WriteError == [name |-> "Error", code |-> "", message |-> "write failed"]

SocketHangUpError ==
    [name |-> "Error", code |-> "ECONNRESET", message |-> "socket hang up"]

AbortedError == [name |-> "Error", code |-> "ECONNRESET", message |-> "aborted"]

\* Errors the socket of the outbound request can report.
SocketErrors ==
    {[name |-> "Error", code |-> "ECONNRESET", message |-> "read ECONNRESET"],
     [name |-> "Error", code |-> "ENOTFOUND",
      message |-> "getaddrinfo ENOTFOUND api.openai.com"]}

(***************************************************************************)
(* The synchronous part of the handler, statement by statement.            *)
(***************************************************************************)
\* Variant: only an OPTIONS request without a body is a preflight.
IsPreflightWithoutBody(ev) ==
    ev.httpMethod = "OPTIONS" /\ ev.body.text = "undefined"

\* event.httpMethod === 'OPTIONS'
IsPreflight(ev) == ev.httpMethod = "OPTIONS"

\* The JSON document {} that replaces a missing or empty body.
EmptyObject ==
    [t |-> "object", prompt |-> Absent, markdown |-> Absent,
     selectedText |-> Absent]

\* JSON.parse(event.body || '{}'): ok is FALSE where JSON.parse throws.
ParseBody(body) ==
    IF body.text \in {"undefined", "empty"}
    THEN [ok |-> TRUE, doc |-> EmptyObject]
    ELSE [ok |-> body.text = "json", doc |-> body.doc]

\* const { prompt, markdown, selectedText } = parsedBody: destructuring null
\* throws, destructuring a number reads three undefined properties.
DestructureThrows(doc) == doc.t = "null"
Field(doc, v) == IF doc.t = "object" THEN v ELSE Absent

\* Variant: the prompt is tested without trimming it.
PromptCheckNoTrim(prompt) ==
    IF Falsy(prompt) THEN "reject"
    ELSE IF prompt.t /= "str" THEN "throw"
    ELSE "pass"

\* !prompt || prompt.trim() === '': "reject" returns the 400, "throw" is the
\* TypeError of calling trim on a value that is not a string.
PromptCheck(prompt) ==
    IF Falsy(prompt) THEN "reject"
    ELSE IF prompt.t /= "str" THEN "throw"
    ELSE IF Trim(prompt.s) = <<>> THEN "reject"
    ELSE "pass"

\* estimateTokens(markdown) reads markdown.length: undefined and null throw.
MarkdownThrows(markdown) == markdown.t \in {"absent", "null"}

\* processedMarkdown, for a markdown that is a string, under a budget.
ProcessMarkdownWith(text, budget) ==
    IF estimateTokens(text) > budget
    THEN truncateContent(text, budget)
    ELSE text

\* processedMarkdown under the handler's budget.
ProcessMarkdown(text) == ProcessMarkdownWith(text, MAX_CONTENT_TOKENS)

\* Variant: selectedText alone decides, without trim.
SelectionCheckNoTrim(selectedText) ==
    IF Falsy(selectedText) THEN "document" ELSE "selection"

\* selectedText && selectedText.trim(): which prompt is built, or "throw"
\* where trim is called on a truthy value that is not a string.
SelectionCheck(selectedText) ==
    IF Falsy(selectedText) THEN "document"
    ELSE IF selectedText.t /= "str" THEN "throw"
    ELSE IF Trim(selectedText.s) /= <<>> THEN "selection"
    ELSE "document"

BuildUserPrompt(mode, prompt, selectedText, processedMarkdown) ==
    IF mode = "selection"
    THEN SEL_A \o selectedText \o SEL_B \o prompt \o SEL_C \o processedMarkdown
    ELSE DOC_A \o prompt \o DOC_B \o processedMarkdown

\* The object whose JSON text is bodyPayload.
BuildPayload(userPrompt) ==
    [model |-> "gpt-4o",
     messages |-> <<[role |-> "system", content |-> systemPrompt],
                    [role |-> "user", content |-> userPrompt]>>,
     stream |-> TRUE,
     max_tokens |-> 4000,
     temperature |-> "0.3"]

NoPayload == BuildPayload(<<>>)

\* !process.env.OPENAI_API_KEY
KeyMissing(key) == key \in {"unset", "empty"}

\* https.request throws while setting a header whose value holds a
\* character that is not allowed in a header.
RequestThrows(key) == key = "invalid-char"

\* Variant: every resolve replaces the value, also of a settled promise.
ResolveLast(p, response) == [state |-> "fulfilled", value |-> response]

\* Promise settlement: only the first resolve of a pending promise counts.
Resolve(p, response) ==
    IF p.state = "pending"
    THEN [state |-> "fulfilled", value |-> response]
    ELSE p

(***************************************************************************)
(* Outcome of the synchronous part of one invocation: how the handler      *)
(* leaves (a returned response, the upstream promise, or a promise that    *)
(* the throwing executor rejected), and what it did on the way.            *)
(***************************************************************************)
Returned(response, parses) ==
    [how |-> "return", response |-> response, parseCalls |-> parses,
     payload |-> NoPayload]

HandlerSync(ev, key) ==
    IF IsPreflight(ev) THEN Returned(PreflightResponse, 0)
    ELSE LET parsed == ParseBody(ev.body) IN
    IF ~parsed.ok THEN Returned(InvalidJsonResponse, 1)
    ELSE IF DestructureThrows(parsed.doc)
         THEN Returned(CatchAllResponse(DestructureNullError), 1)
    ELSE LET prompt       == Field(parsed.doc, parsed.doc.prompt)
             markdown     == Field(parsed.doc, parsed.doc.markdown)
             selectedText == Field(parsed.doc, parsed.doc.selectedText)
             promptCheck  == PromptCheck(prompt)
             mode         == SelectionCheck(selectedText)
         IN
    IF promptCheck = "reject" THEN Returned(PromptRequiredResponse, 1)
    ELSE IF promptCheck = "throw"
         THEN Returned(CatchAllResponse(TrimNotFunctionError), 1)
    ELSE IF MarkdownThrows(markdown)
         THEN Returned(CatchAllResponse(ReadLengthError), 1)
    ELSE IF mode = "throw"
         THEN Returned(CatchAllResponse(TrimNotFunctionError), 1)
    ELSE LET payload == BuildPayload(
                 BuildUserPrompt(mode, prompt.s, selectedText.s,
                                 ProcessMarkdown(markdown.s)))
         IN
    IF KeyMissing(key) THEN Returned(MissingKeyResponse, 1)
    ELSE IF RequestThrows(key)
         THEN [how |-> "reject", response |-> NoResponse, parseCalls |-> 1,
               payload |-> payload]
    ELSE [how |-> "promise", response |-> NoResponse, parseCalls |-> 1,
          payload |-> payload]

(***************************************************************************)
(* Inputs: the inbound events, the credential, and the chunks the upstream *)
(* can deliver.                                                            *)
(***************************************************************************)
Hi == <<"h", "i">>
Blank == <<" ", "\t">>
Doc == <<"#", " ", "T">>

Obj(prompt, markdown, selectedText) ==
    [t |-> "object", prompt |-> prompt, markdown |-> markdown,
     selectedText |-> selectedText]

\* Parsed documents of the bodies that are JSON text.
JsonDocs ==
    {[t |-> "null", prompt |-> Absent, markdown |-> Absent,
      selectedText |-> Absent],
     [t |-> "number", prompt |-> Absent, markdown |-> Absent,
      selectedText |-> Absent],
     Obj(Absent, Absent, Absent),
     Obj(Absent, Str(Doc), Absent),
     Obj(Str(<<>>), Str(Doc), Absent),
     Obj(Str(Blank), Str(Doc), Absent),
     Obj(Null, Str(Doc), Absent),
     Obj(Num(0), Str(Doc), Absent),
     Obj(Num(5), Str(Doc), Absent),
     Obj(Str(Hi), Absent, Absent),
     Obj(Str(Hi), Str(Doc), Absent),
     Obj(Str(<<" ">> \o Hi), Str(Doc), Str(<<"T">>)),
     Obj(Str(Hi), Str(<<>>), Str(Blank)),
     Obj(Str(Hi), Str(Doc), Str(<<" ", "T", "\"", " ">>)),
     Obj(Str(Hi), Str(Doc), Str(<<>>)),
     Obj(Str(Hi), Str(Doc), Num(7))}

\* event.body: undefined, '', a text that is not JSON, or a JSON text.
RequestBodies ==
    {[text |-> k, doc |-> EmptyObject] : k \in {"undefined", "empty", "invalid"}}
      \cup {[text |-> "json", doc |-> d] : d \in JsonDocs}

Methods == {"OPTIONS", "POST", "GET"}

Events == [httpMethod : Methods, body : RequestBodies]

\* process.env.OPENAI_API_KEY: not set, '', a usable key, or a key holding
\* a character that is not allowed in a header value (a line break).
Keys == {"unset", "empty", "valid", "invalid-char"}

\* res.statusCode of the upstream response.
UpstreamStatuses == {200, 401, 429}

ChunkDelta ==
    <<"d", "a", "t", "a", ":", " ", "{", "\"", "c", "h", "o", "i", "c",
      "e", "s", "\"", ":", "[", "{", "\"", "d", "e", "l", "t", "a", "\"",
      ":", "{", "\"", "c", "o", "n", "t", "e", "n", "t", "\"", ":", "\"",
      "h", "i", "\"", "}", "}", "]", "}", "\n", "\n">>

ChunkDone ==
    <<"d", "a", "t", "a", ":", " ", "[", "D", "O", "N", "E", "]", "\n", "\n">>

ChunkQuoted ==
    <<"d", "a", "t", "a", ":", " ", "{", "\"", "c", "h", "o", "i", "c",
      "e", "s", "\"", ":", "[", "{", "\"", "d", "e", "l", "t", "a", "\"",
      ":", "{", "\"", "c", "o", "n", "t", "e", "n", "t", "\"", ":", "\"",
      "a", "\\", "\"", "b", "\"", "}", "}", "]", "}", "\r", "\n", "\r", "\n">>

ChunkHead ==
    <<"d", "a", "t", "a", ":", " ", "{", "\"", "c", "h", "o", "i", "c",
      "e", "s", "\"", ":", "[", "{", "\"", "d", "e", "l", "t", "a", "\"",
      ":", "{", "\"", "c", "o", "n", "t", "e", "n", "t", "\"", ":", "\"",
      "h">>

ChunkTail ==
    <<"i", "\"", "}", "}", "]", "}", "\n", "\n">>

ChunkNoise ==
    <<":", " ", "p", "i", "n", "g", "\n", "\n", "d", "a", "t", "a", ":",
      " ", "\n", "\n", "d", "a", "t", "a", ":", " ", "{", "\"", "c", "h",
      "o", "i", "c", "e", "s", "\"", ":", "[", "{", "\"", "d", "e", "l",
      "t", "a", "\"", ":", "{", "}", "}", "]", "}", "\n", "\n", "d", "a",
      "t", "a", ":", " ", "{", "o", "o", "p", "s", "\n", "\n">>

ErrChunkWhole ==
    <<"{", "\"", "e", "r", "r", "o", "r", "\"", ":", "\"", "r", "a", "t",
      "e", "\"", "}">>

ErrChunkHead ==
    <<"{", "\"", "e", "r", "r", "o", "r", "\"", ":", "\"", "c", "a", "f",
      "xC3">>

ErrChunkTail ==
    <<"xA9", "\"", "}">>

\* A complete delta line, then the start of a data line cut in its payload.
ChunkDeltaThenHead ==
    <<"d", "a", "t", "a", ":", " ", "{", "\"", "c", "h", "o", "i", "c",
      "e", "s", "\"", ":", "[", "{", "\"", "d", "e", "l", "t", "a", "\"",
      ":", "{", "\"", "c", "o", "n", "t", "e", "n", "t", "\"", ":", "\"",
      "o", "k", "\"", "}", "}", "]", "}", "\n", "\n", "d", "a", "t", "a",
      ":", " ", "{", "\"", "c", "h", "o", "i", "c", "e", "s", "\"", ":",
      "[", "{", "\"", "d", "e", "l", "t", "a", "\"", ":", "{", "\"", "c",
      "o", "n", "t", "e", "n", "t", "\"", ":", "\"", "y">>

\* The rest of that line, then the sentinel line.
ChunkTailThenDone ==
    <<"z", "\"", "}", "}", "]", "}", "\n", "\n", "d", "a", "t", "a", ":",
      " ", "[", "D", "O", "N", "E", "]", "\n", "\n">>

\* A data line whose payload is not JSON, then a complete delta line.
ChunkBadThenDelta ==
    <<"d", "a", "t", "a", ":", " ", "{", "o", "o", "p", "s", "\n", "\n",
      "d", "a", "t", "a", ":", " ", "{", "\"", "c", "h", "o", "i", "c",
      "e", "s", "\"", ":", "[", "{", "\"", "d", "e", "l", "t", "a", "\"",
      ":", "{", "\"", "c", "o", "n", "t", "e", "n", "t", "\"", ":", "\"",
      "g", "o", "\"", "}", "}", "]", "}", "\n", "\n">>

OkChunks ==
    {ChunkDelta, ChunkDone, ChunkQuoted, ChunkHead, ChunkTail, ChunkNoise,
     ChunkDeltaThenHead, ChunkTailThenDone, ChunkBadThenDelta}

ErrChunks == {ErrChunkWhole, ErrChunkHead, ErrChunkTail, ChunkDone}

\* The chunks a response of the given status may carry.
UpstreamChunks(status) == IF status = 200 THEN OkChunks ELSE ErrChunks

(***************************************************************************)
(* State of one invocation.                                                *)
(***************************************************************************)
VARIABLES
    event,          \* the inbound event
    apiKey,         \* process.env.OPENAI_API_KEY
    pc,             \* "start" before the handler runs, "returned" after
    promise,        \* the promise the handler returns: state and value
    resolveCalls,   \* number of calls of resolve
    parseCalls,     \* number of calls of JSON.parse(event.body)
    netCalls,       \* number of outbound requests created by https.request
    bodyPayload,    \* the payload built for the upstream
    req,            \* outbound request: "none", "open", "closed"
    reqDestroyed,   \* req.destroy() has been called
    socketHadError, \* the socket reported an error ('error' emitted on req)
    timeoutPhase,   \* where the 'timeout' listener ran, "none" if it did not
    res,            \* upstream response: status and stream state
    received,       \* the chunks delivered by 'data' events, in order
    errorBody,      \* errorBody of the non-200 branch
    streamResponse, \* streamResponse of the 200 branch
    chunkCount,     \* chunkCount of the 200 branch
    budgetContent,  \* token budgeter on its own: the content,
    budgetMax,      \*   the budget (maxTokens),
    budgetPc,       \*   "start" before it runs, "done" after, "idle" if unused
    budgetResult,   \*   truncateContent(content, maxTokens)
    budgetProcessed \*   processedMarkdown for that content and budget

vars ==
    <<event, apiKey, pc, promise, resolveCalls, parseCalls, netCalls,
      bodyPayload, req, reqDestroyed, socketHadError, timeoutPhase, res,
      received, errorBody, streamResponse, chunkCount, budgetContent,
      budgetMax, budgetPc, budgetResult, budgetProcessed>>

inputVars == <<event, apiKey>>
handlerVars == <<pc, parseCalls, netCalls, bodyPayload>>
streamVars == <<received, errorBody, streamResponse, chunkCount>>
budgetVars ==
    <<budgetContent, budgetMax, budgetPc, budgetResult, budgetProcessed>>

\* The handler has not run and no request exists.
HandlerStart ==
    /\ pc = "start"
    /\ promise = [state |-> "unstarted", value |-> NoResponse]
    /\ resolveCalls = 0
    /\ parseCalls = 0
    /\ netCalls = 0
    /\ bodyPayload = NoPayload
    /\ req = "none"
    /\ reqDestroyed = FALSE
    /\ socketHadError = FALSE
    /\ timeoutPhase = "none"
    /\ res = [status |-> 0, state |-> "none"]
    /\ received = <<>>
    /\ errorBody = <<>>
    /\ streamResponse = <<>>
    /\ chunkCount = 0

\* The token budgeter is not exercised on its own.
BudgetIdle ==
    /\ budgetContent = <<>>
    /\ budgetMax = MAX_CONTENT_TOKENS
    /\ budgetPc = "idle"
    /\ budgetResult = <<>>
    /\ budgetProcessed = <<>>

Init ==
    /\ event \in Events
    /\ apiKey \in Keys
    /\ HandlerStart
    /\ BudgetIdle

(***************************************************************************)
(* handler(event): the synchronous run up to the return.  When the request *)
(* is created, req.write(bodyPayload) either succeeds, followed by         *)
(* req.end(), or throws, and the catch resolves with the write error.      *)
(***************************************************************************)
Invoke ==
    /\ pc = "start"
    /\ pc' = "returned"
    /\ LET out == HandlerSync(event, apiKey) IN
       /\ parseCalls' = out.parseCalls
       /\ bodyPayload' = out.payload
       /\ \/ /\ out.how = "return"
             /\ promise' = [state |-> "fulfilled", value |-> out.response]
             /\ UNCHANGED <<resolveCalls, netCalls, req>>
          \/ /\ out.how = "reject"
             /\ promise' = [state |-> "rejected", value |-> NoResponse]
             /\ UNCHANGED <<resolveCalls, netCalls, req>>
          \/ /\ out.how = "promise"
             /\ netCalls' = netCalls + 1
             /\ req' = "open"
             /\ \E writeThrows \in BOOLEAN :
                  IF writeThrows
                  THEN /\ promise' = Resolve([state |-> "pending",
                                              value |-> NoResponse],
                                             WriteErrorResponse(WriteError))
                       /\ resolveCalls' = resolveCalls + 1
                  ELSE /\ promise' = [state |-> "pending", value |-> NoResponse]
                       /\ UNCHANGED resolveCalls
    /\ UNCHANGED <<budgetVars, inputVars, reqDestroyed, socketHadError, timeoutPhase, res,
                   streamVars>>

(***************************************************************************)
(* Events of the outbound request.  The socket is live while the request   *)
(* is open and neither destroyed nor failed.                               *)
(***************************************************************************)
SocketLive == req = "open" /\ ~reqDestroyed /\ ~socketHadError

\* The response callback of https.request: the status line and headers have
\* arrived; the listeners of the branch taken are registered on res.
Response(status) ==
    /\ SocketLive
    /\ res.state = "none"
    /\ res' = [status |-> status, state |-> "flowing"]
    /\ UNCHANGED <<budgetVars, inputVars, handlerVars, promise, resolveCalls, req,
                   reqDestroyed, socketHadError, timeoutPhase, streamVars>>

\* Variant: errorBody is assigned the chunk instead of being appended to.
ReplaceErrorBody(errBody, chunk) == Utf8Decode(chunk)

\* errorBody += chunk.toString()
AppendErrorBody(errBody, chunk) == errBody \o Utf8Decode(chunk)

\* res.on('data') of the branch taken.
Data(chunk) ==
    /\ SocketLive
    /\ res.state = "flowing"
    /\ Len(received) < MaxChunks
    /\ received' = Append(received, chunk)
    /\ IF res.status /= 200
       THEN /\ errorBody' = AppendErrorBody(errorBody, chunk)
            /\ UNCHANGED <<streamResponse, chunkCount>>
       ELSE /\ chunkCount' = chunkCount + 1
            /\ streamResponse' = ReframeChunk(streamResponse, chunk)
            /\ UNCHANGED errorBody
    /\ UNCHANGED <<budgetVars, inputVars, handlerVars, promise, resolveCalls, req,
                   reqDestroyed, socketHadError, timeoutPhase, res>>

\* The response an 'end' listener resolves with.
EndResponse(status, errBody, buf) ==
    IF status /= 200
    THEN UpstreamErrorResponse(status, errBody)
    ELSE StreamEndResponse(buf)

\* res.on('end') of the branch taken; the exchange is over.
End ==
    /\ SocketLive
    /\ res.state = "flowing"
    /\ res' = [res EXCEPT !.state = "ended"]
    /\ req' = "closed"
    /\ promise' = Resolve(promise,
                          EndResponse(res.status, errorBody, streamResponse))
    /\ resolveCalls' = resolveCalls + 1
    /\ UNCHANGED <<budgetVars, inputVars, handlerVars, reqDestroyed, socketHadError,
                   timeoutPhase, streamVars>>

\* req.on('error'): the socket reports an error, before the response or
\* while its body is being received; the socket then closes (SocketClose).
SocketError(err) ==
    /\ SocketLive
    /\ res.state \in {"none", "flowing"}
    /\ socketHadError' = TRUE
    /\ promise' = Resolve(promise, RequestErrorResponse(err))
    /\ resolveCalls' = resolveCalls + 1
    /\ UNCHANGED <<budgetVars, inputVars, handlerVars, req, reqDestroyed, timeoutPhase,
                   res, streamVars>>

\* req.on('timeout'): the listener logs and calls req.destroy().
Timeout ==
    /\ SocketLive
    /\ res.state \in {"none", "flowing"}
    /\ reqDestroyed' = TRUE
    /\ timeoutPhase' = IF promise.state /= "pending" THEN "settled"
                       ELSE IF res.state = "none" THEN "before-response"
                       ELSE "during-body"
    /\ UNCHANGED <<budgetVars, inputVars, handlerVars, promise, resolveCalls, req,
                   socketHadError, res, streamVars>>

\* res has an 'error' listener: only the 200 branch registers one.
HasResErrorListener(status) == status = 200

\* The socket closes: after req.destroy(), after a socket error, or because
\* the peer closed the connection.  A response whose body has not ended is
\* aborted, and its 'error' event is emitted only if res has a listener for
\* it; a request without response gets 'error' (socket hang up) on req
\* unless the socket error was already emitted.
SocketClose ==
    /\ req = "open"
    /\ req' = "closed"
    /\ IF res.state = "flowing"
       THEN /\ res' = [res EXCEPT !.state = "aborted"]
            /\ IF HasResErrorListener(res.status)
               THEN /\ promise' = Resolve(promise,
                                          StreamErrorResponse(AbortedError))
                    /\ resolveCalls' = resolveCalls + 1
               ELSE UNCHANGED <<promise, resolveCalls>>
       ELSE /\ UNCHANGED res
            /\ IF ~socketHadError
               THEN /\ promise' = Resolve(promise,
                                      RequestErrorResponse(SocketHangUpError))
                    /\ resolveCalls' = resolveCalls + 1
               ELSE UNCHANGED <<promise, resolveCalls>>
    /\ UNCHANGED <<budgetVars, inputVars, handlerVars, reqDestroyed, socketHadError,
                   timeoutPhase, streamVars>>

Next ==
    \/ Invoke
    \/ \E status \in UpstreamStatuses : Response(status)
    \/ \E chunk \in UpstreamChunks(res.status) : Data(chunk)
    \/ End
    \/ \E err \in SocketErrors : SocketError(err)
    \/ Timeout
    \/ SocketClose

Spec == Init /\ [][Next]_vars

(***************************************************************************)
(* The token budgeter on its own: truncateContent, and the handler's       *)
(* processedMarkdown, applied to a content under a budget.  The inputs are *)
(* every content of up to MaxContentLen characters of a fixed text under   *)
(* every budget up to MaxBudget, two contents that hold the marker's text, *)
(* and the handler's budget with a content of exactly four characters per  *)
(* token and with one character more.                                      *)
(***************************************************************************)
TextPattern == <<"a", "b", "\n", "\n", "[", ".", "c", " ", "]", "d", "e">>

\* The first n characters of the fixed text.
Text(n) == [i \in 1..n |-> TextPattern[((i - 1) % Len(TextPattern)) + 1]]

\* A content whose head slice under budget 20 (48 characters) ends with all
\* of the marker but its last two characters, and one where it ends with
\* all but the last three.
MarkedContent == <<"x">> \o SubSeq(TRUNCATION_MARKER, 1, 47) \o Text(33)
NearlyMarkedContent == <<"x", "y">> \o SubSeq(TRUNCATION_MARKER, 1, 46) \o Text(33)

BudgetInputs ==
    {<<Text(n), m>> : n \in 0..MaxContentLen, m \in 0..MaxBudget}
      \cup {<<MarkedContent, 20>>, <<NearlyMarkedContent, 20>>}
      \cup {<<Text(MAX_CONTENT_TOKENS * 4), MAX_CONTENT_TOKENS>>,
            <<Text(MAX_CONTENT_TOKENS * 4 + 1), MAX_CONTENT_TOKENS>>}

\* An event for the runs in which the handler is not invoked.
IdleEvent ==
    [httpMethod |-> "OPTIONS", body |-> [text |-> "undefined", doc |-> EmptyObject]]

BudgetInit ==
    /\ event = IdleEvent
    /\ apiKey = "unset"
    /\ HandlerStart
    /\ \E input \in BudgetInputs :
         /\ budgetContent = input[1]
         /\ budgetMax = input[2]
    /\ budgetPc = "start"
    /\ budgetResult = <<>>
    /\ budgetProcessed = <<>>

\* truncateContent(content, maxTokens), and lines 114-129 of the handler.
ApplyBudget ==
    /\ budgetPc = "start"
    /\ budgetPc' = "done"
    /\ budgetResult' = truncateContent(budgetContent, budgetMax)
    /\ budgetProcessed' = ProcessMarkdownWith(budgetContent, budgetMax)
    /\ UNCHANGED <<budgetContent, budgetMax, inputVars, handlerVars, promise,
                   resolveCalls, req, reqDestroyed, socketHadError,
                   timeoutPhase, res, streamVars>>

BudgetNext == ApplyBudget

BudgetSpec == BudgetInit /\ [][BudgetNext]_vars

(***************************************************************************)
(* Vocabulary of the properties.                                           *)
(***************************************************************************)
Settled == promise.state = "fulfilled"
Pending == promise.state = "pending"
Delivered == promise.value

\* The fields of a delivered JSON body.
BodyFields(response) ==
    IF response.body.kind = "json" THEN DOMAIN response.body.value ELSE {}

\* The invocation went past the OPTIONS branch and its body parsed.
ParsedDoc == ParseBody(event.body).doc
BodyParses == event.httpMethod /= "OPTIONS" /\ ParseBody(event.body).ok

\* The parsed body is a JSON object whose prompt is a string that is not
\* empty after trimming.
HasUsablePrompt ==
    /\ ParsedDoc.t = "object"
    /\ ParsedDoc.prompt.t = "str"
    /\ Trim(ParsedDoc.prompt.s) /= <<>>

\* The parsed body is a JSON object (or a missing or empty body, read as
\* {}) whose prompt is absent, empty or whitespace-only.
HasBlankPrompt ==
    /\ ParsedDoc.t = "object"
    /\ \/ ParsedDoc.prompt.t = "absent"
       \/ ParsedDoc.prompt.t = "str" /\ Trim(ParsedDoc.prompt.s) = <<>>

NoNetwork == netCalls = 0 /\ req = "none"

(***************************************************************************)
(* C1: once the exchange of an issued outbound request is over (the        *)
(* response ended or the socket closed), the promise of the invocation is  *)
(* settled with a response object, for every upstream behaviour.           *)
(* Fails on the code: a non-200 response whose body is cut off before      *)
(* 'end' has no 'error' listener, nothing resolves, the promise stays      *)
(* pending.                                                                *)
(***************************************************************************)
C1_SettledWhenExchangeOver == req = "closed" => Settled

(***************************************************************************)
(* C2: the delivered response is settled exactly once, by the first        *)
(* terminal event to fire: a call of resolve on a pending promise fulfils  *)
(* it, and once fulfilled no later event changes the status code, headers  *)
(* or body delivered.                                                      *)
(***************************************************************************)
C2_FirstTerminalEventWins ==
    [][/\ Settled => promise' = promise
       /\ Pending /\ resolveCalls' > resolveCalls => promise'.state = "fulfilled"
      ]_vars

\* Two terminal events have fired in one invocation.
C2_Witness == Settled /\ resolveCalls >= 2 /\ res.state = "aborted"

(***************************************************************************)
(* C3: when the 'timeout' listener runs while the invocation is pending,   *)
(* before the response or during its body, the request is destroyed and,   *)
(* once its socket has closed, the invocation is settled with a 500        *)
(* response carrying the failure's name and message.                       *)
(* Fails on the code: a timeout during the body of a non-200 response      *)
(* destroys the request, and nothing resolves.                             *)
(***************************************************************************)
C3_TimeoutSettlesWith500 ==
    (timeoutPhase \in {"before-response", "during-body"} /\ req = "closed")
      => /\ reqDestroyed
         /\ Settled
         /\ Delivered.statusCode = 500
         /\ {"details", "errorName"} \subseteq BodyFields(Delivered)

(***************************************************************************)
(* C4: a request (other than the OPTIONS preflight) whose body is not      *)
(* JSON, or is a JSON object with an absent, empty or whitespace-only      *)
(* prompt, is answered 400 with a JSON body holding an error field, and no *)
(* outbound request is made, whatever the credential.                      *)
(***************************************************************************)
C4_Case ==
    /\ event.httpMethod /= "OPTIONS"
    /\ \/ ~ParseBody(event.body).ok
       \/ ParseBody(event.body).ok /\ HasBlankPrompt

C4_BadBodyOrBlankPromptIs400 ==
    (pc = "returned" /\ C4_Case)
      => /\ Settled
         /\ Delivered.statusCode = 400
         /\ "error" \in BodyFields(Delivered)
         /\ NoNetwork

\* A whitespace-only prompt was rejected although the credential is set.
C4_Witness ==
    /\ pc = "returned"
    /\ C4_Case
    /\ apiKey = "valid"
    /\ event.body.text = "json"
    /\ ParsedDoc.prompt = Str(Blank)
    /\ Delivered.statusCode = 400

(***************************************************************************)
(* C5: every body that parses as JSON and does not supply a prompt that is *)
(* a non-empty string after trimming (a prompt that is a number, a body    *)
(* that is null, ...) is answered 400 before any network activity.         *)
(* Fails on the code: a prompt that is a truthy non-string and a null body *)
(* raise a TypeError, which the outer catch turns into a 500.              *)
(***************************************************************************)
C5_NoUsablePromptIs400 ==
    (pc = "returned" /\ BodyParses /\ ~HasUsablePrompt)
      => Settled /\ Delivered.statusCode = 400 /\ NoNetwork

(***************************************************************************)
(* C6: a request that passes validation (its body parses and its prompt is *)
(* a non-empty string after trimming) while the credential is absent is    *)
(* answered 500 'Server configuration error', and no outbound request is   *)
(* created.                                                                *)
(* Fails on the code: with the markdown field absent the handler throws    *)
(* before it reaches the credential check and answers 500 'Internal        *)
(* server error'.                                                          *)
(***************************************************************************)
C6_MissingKeyIsConfigurationError ==
    (pc = "returned" /\ BodyParses /\ HasUsablePrompt /\ KeyMissing(apiKey))
      => /\ Settled
         /\ Delivered.statusCode = 500
         /\ Delivered.body = JsonBody([error |-> S("Server configuration error"),
                                       details |-> S("API key not configured")])
         /\ NoNetwork

(***************************************************************************)
(* C7: an OPTIONS request, whatever its body and whatever the credential,  *)
(* is answered 200 with an empty body and the three CORS headers, without  *)
(* parsing the body and without an outbound request.                       *)
(***************************************************************************)
C7_PreflightShortCircuits ==
    (pc = "returned" /\ event.httpMethod = "OPTIONS")
      => /\ Settled
         /\ Delivered.statusCode = 200
         /\ Delivered.body = TextBody(<<>>)
         /\ DOMAIN Delivered.headers =
              {"Access-Control-Allow-Origin", "Access-Control-Allow-Methods",
               "Access-Control-Allow-Headers"}
         /\ Delivered.headers["Access-Control-Allow-Origin"] = "*"
         /\ Delivered.headers["Access-Control-Allow-Methods"] = "POST, OPTIONS"
         /\ Delivered.headers["Access-Control-Allow-Headers"] =
              "Content-Type, Authorization"
         /\ parseCalls = 0
         /\ NoNetwork

\* A preflight with a body that is not JSON and no credential was answered.
C7_Witness ==
    /\ pc = "returned"
    /\ event.httpMethod = "OPTIONS"
    /\ event.body.text = "invalid"
    /\ apiKey = "unset"
    /\ Settled

\* The text of the chunks received, each decoded on its own, in order.
RECURSIVE DecodedText(_)
DecodedText(chunks) ==
    IF chunks = <<>> THEN <<>>
    ELSE Utf8Decode(Head(chunks)) \o DecodedText(Tail(chunks))

\* The lines of the chunks received, chunk by chunk, in order.
RECURSIVE ReceivedLines(_)
ReceivedLines(chunks) ==
    IF chunks = <<>> THEN <<>>
    ELSE SplitLines(Utf8Decode(Head(chunks))) \o ReceivedLines(Tail(chunks))

\* A line that carries the sentinel.
IsSentinelLine(line) ==
    StartsWith(line, DATA_PREFIX) /\ Trim(DropFirst(line, 6)) = DONE_SENTINEL

\* The frames of an event-stream body: the texts that end at each blank
\* line; a rest that no blank line ends is kept with a mark, so that it is
\* neither a content frame nor the terminal frame.
RECURSIVE Frames(_)
Frames(text) ==
    IF text = <<>> THEN <<>>
    ELSE IF \E i \in 1..(Len(text) - 1) : text[i] = "\n" /\ text[i + 1] = "\n"
         THEN LET i == CHOOSE k \in 1..(Len(text) - 1) :
                         /\ text[k] = "\n" /\ text[k + 1] = "\n"
                         /\ \A j \in 1..(k - 1) :
                              ~(text[j] = "\n" /\ text[j + 1] = "\n")
              IN  <<SubSeq(text, 1, i - 1)>> \o Frames(DropFirst(text, i + 1))
    ELSE <<text \o <<"\n">>>>

TerminalFrame == DATA_PREFIX \o DONE_SENTINEL

\* data: {"content":"..."} with a non-empty JSON string.
IsContentFrame(frame) ==
    /\ StartsWith(frame, FRAME_OPEN)
    /\ EndsWith(frame, <<"}">>)
    /\ Len(frame) > Len(FRAME_OPEN) + 1
    /\ LET r == ParseString(SubSeq(frame, Len(FRAME_OPEN) + 1, Len(frame) - 1))
       IN  r.ok /\ r.v /= <<>>

TerminalCount(frames) ==
    Cardinality({i \in 1..Len(frames) : frames[i] = TerminalFrame})

\* The delivered response is the 200 event-stream response.
DeliveredStream ==
    /\ Settled
    /\ Delivered.statusCode = 200
    /\ "Content-Type" \in DOMAIN Delivered.headers
    /\ Delivered.headers["Content-Type"] = "text/event-stream"

C9_BufferedUntilEnd ==
    /\ [](res.status = 200 =>
            /\ DeliveredStream =>
                 /\ res.state = "ended"
                 /\ Delivered = StreamEndResponse(streamResponse)
            /\ (res.state = "ended" /\ resolveCalls = 1) => DeliveredStream
            /\ (res.state = "flowing" /\ resolveCalls = 0) => Pending)
    /\ [][res.status = 200 =>
            /\ IsPrefixOf(streamResponse, streamResponse')
            /\ received' /= received => promise' = promise
         ]_vars

\* A 200 stream of two chunks, the sentinel among them, has been delivered.
C9_Witness ==
    /\ res.status = 200
    /\ res.state = "ended"
    /\ received = <<ChunkQuoted, ChunkDone>>
    /\ DeliveredStream
    /\ Delivered.body.text = streamResponse
    /\ Len(streamResponse) > Len(DONE_FRAME)

(***************************************************************************)
(* C10 as stated: every 200 event-stream body is content frames followed   *)
(* by the terminal frame, which occurs exactly once and is the last frame, *)
(* for every sequence of upstream lines.                                   *)
(* Fails on the code: a stream that ends without the sentinel gives no     *)
(* terminal frame, a repeated sentinel gives two, and content after the    *)
(* sentinel follows the terminal frame.                                    *)
(***************************************************************************)
C10_TerminalFrameOnceAndLast ==
    DeliveredStream =>
      LET frames == Frames(Delivered.body.text) IN
        /\ frames /= <<>>
        /\ frames[Len(frames)] = TerminalFrame
        /\ TerminalCount(frames) = 1
        /\ \A i \in 1..(Len(frames) - 1) : IsContentFrame(frames[i])

(***************************************************************************)
(* C10 amended: every 200 event-stream body is a sequence of zero or more  *)
(* frames, each a content frame or the terminal frame, with one terminal   *)
(* frame per sentinel line received; when exactly one sentinel line was    *)
(* received and no line after it yields a frame, the terminal frame occurs *)
(* exactly once and is the last frame.                                     *)
(***************************************************************************)
C10_TerminalFramePerSentinel ==
    DeliveredStream =>
      LET frames    == Frames(Delivered.body.text)
          lines     == ReceivedLines(received)
          sentinels == {i \in 1..Len(lines) : IsSentinelLine(lines[i])}
      IN  /\ \A i \in 1..Len(frames) :
               frames[i] = TerminalFrame \/ IsContentFrame(frames[i])
          /\ TerminalCount(frames) = Cardinality(sentinels)
          /\ (/\ Cardinality(sentinels) = 1
              /\ \A k \in sentinels : \A j \in (k + 1)..Len(lines) :
                   ReframeLine(<<>>, lines[j]) = <<>>)
               => /\ frames /= <<>>
                  /\ frames[Len(frames)] = TerminalFrame
                  /\ TerminalCount(frames) = 1

\* A content frame followed by the single terminal frame was delivered.
C10_Witness ==
    /\ DeliveredStream
    /\ received = <<ChunkDelta, ChunkDone>>
    /\ Len(Frames(Delivered.body.text)) = 2
    /\ Frames(Delivered.body.text)[2] = TerminalFrame

(***************************************************************************)
(* C11: every response object the handler returns, whichever branch        *)
(* produced it, carries the header Access-Control-Allow-Origin: *.         *)
(***************************************************************************)
C11_EveryResponseAllowsAnyOrigin ==
    Settled =>
      /\ "Access-Control-Allow-Origin" \in DOMAIN Delivered.headers
      /\ Delivered.headers["Access-Control-Allow-Origin"] = "*"

\* The response of a failed request (req 'error') was delivered.
C11_Witness ==
    /\ Settled
    /\ "errorCode" \in BodyFields(Delivered)
    /\ Delivered.headers["Access-Control-Allow-Origin"] = "*"

(***************************************************************************)
(* Vocabulary of the token budget properties, computed from the lengths    *)
(* the claims name and not from the operators of the budgeter.             *)
(***************************************************************************)
\* ceil(length / 4)
CeilQuarter(n) == (n + 3) \div 4

\* floor(maxTokens * 4 * 0.6) and floor(maxTokens * 4 * 0.2)
HeadLen(maxTokens) == (maxTokens * 24) \div 10
TailLen(maxTokens) == (maxTokens * 8) \div 10

\* The budgeter has run on a content whose estimate exceeds the budget.
BudgetFired ==
    budgetPc = "done" /\ CeilQuarter(Len(budgetContent)) > budgetMax

\* The budgeter has run on a content whose estimate is within the budget.
BudgetKept ==
    budgetPc = "done" /\ CeilQuarter(Len(budgetContent)) <= budgetMax

\* The positions at which pat occurs in text.
Occurrences(text, pat) ==
    {i \in 1..(Len(text) - Len(pat) + 1) :
       text[i] = pat[1] /\ SubSeq(text, i, i + Len(pat) - 1) = pat}

\* The marker without the blank lines around it.
MarkerCore == SubSeq(TRUNCATION_MARKER, 3, Len(TRUNCATION_MARKER) - 2)

HeadSlice == SubSeq(budgetContent, 1, HeadLen(budgetMax))
TailSlice ==
    SubSeq(budgetContent, Len(budgetContent) - TailLen(budgetMax) + 1,
           Len(budgetContent))

(***************************************************************************)
(* C12 as stated: for oversized content the result starts with the first   *)
(* floor(maxTokens*4*0.6) characters, ends with the last                   *)
(* floor(maxTokens*4*0.2) characters, and contains the marker exactly      *)
(* once.                                                                   *)
(* Fails on the code: the kept slices are copied as they are, so a content *)
(* that already holds the marker's text gives a result with the marker     *)
(* twice.                                                                  *)
(***************************************************************************)
C12_HeadTailMarkerOnce ==
    BudgetFired =>
      /\ StartsWith(budgetResult, HeadSlice)
      /\ EndsWith(budgetResult, TailSlice)
      /\ Cardinality(Occurrences(budgetResult, TRUNCATION_MARKER)) = 1

(***************************************************************************)
(* C12 amended: for oversized content the result is the first              *)
(* floor(maxTokens*4*0.6) characters, then the marker, then the last       *)
(* floor(maxTokens*4*0.2) characters of the content; the marker occurs     *)
(* exactly once in it provided the content does not itself contain the     *)
(* marker's bracketed text.                                                *)
(***************************************************************************)
C12_HeadMarkerTail ==
    BudgetFired =>
      /\ budgetResult = HeadSlice \o TRUNCATION_MARKER \o TailSlice
      /\ StartsWith(budgetResult, HeadSlice)
      /\ EndsWith(budgetResult, TailSlice)
      /\ HeadLen(budgetMax) + 1 \in Occurrences(budgetResult, TRUNCATION_MARKER)
      /\ Occurrences(budgetContent, MarkerCore) = {}
           => Cardinality(Occurrences(budgetResult, TRUNCATION_MARKER)) = 1

\* A content of 16 characters was truncated under a budget of 3 tokens.
C12_Witness ==
    /\ BudgetFired
    /\ budgetMax = 3
    /\ Len(budgetContent) = 16
    /\ Len(budgetResult) = 7 + Len(TRUNCATION_MARKER) + 2


(***************************************************************************)
(* C13: a markdown whose estimate ceil(length/4) is at most the budget     *)
(* (22000 in the handler, so up to 88000 characters, and the empty string) *)
(* goes into the user message unchanged: truncate is the identity on it,   *)
(* processedMarkdown is the markdown, the document prompt ends with it,    *)
(* and no marker is inserted.                                              *)
(***************************************************************************)
C13_WithinBudgetUnchanged ==
    BudgetKept =>
      /\ budgetResult = budgetContent
      /\ budgetProcessed = budgetContent
      /\ BuildUserPrompt("document", Hi, <<>>, budgetProcessed)
           = DOC_A \o Hi \o DOC_B \o budgetContent
      /\ Cardinality(Occurrences(budgetProcessed, TRUNCATION_MARKER))
           = Cardinality(Occurrences(budgetContent, TRUNCATION_MARKER))

\* A content whose estimate equals the budget (16 characters, 4 tokens) came
\* out unchanged.
C13_Witness ==
    /\ BudgetKept
    /\ budgetMax = 4
    /\ Len(budgetContent) = 16
    /\ CeilQuarter(Len(budgetContent)) = budgetMax
    /\ budgetProcessed = budgetContent


(***************************************************************************)
(* C20: whenever truncation fires, for every maxTokens >= 0, the content   *)
(* is strictly longer than floor(maxTokens*4*0.6) + floor(maxTokens*4*0.2),*)
(* so the tail slice starts after the head slice ends and the result holds *)
(* exactly the two slices and the marker; under the handler's budget of    *)
(* 22000 the result's own estimate is within the budget.                   *)
(***************************************************************************)
C20_TailNeverOverlapsHead ==
    BudgetFired /\ budgetMax >= 0 =>
      /\ Len(budgetContent) > HeadLen(budgetMax) + TailLen(budgetMax)
      /\ Len(budgetContent) - TailLen(budgetMax) + 1 > HeadLen(budgetMax)
      /\ Len(budgetResult)
           = HeadLen(budgetMax) + Len(TRUNCATION_MARKER) + TailLen(budgetMax)
      /\ DropFirst(budgetResult, HeadLen(budgetMax) + Len(TRUNCATION_MARKER))
           = TailSlice
      /\ budgetMax = MAX_CONTENT_TOKENS
           => CeilQuarter(Len(budgetResult)) <= budgetMax

\* The shortest content over a budget of 2 tokens (9 characters) was cut to
\* its first 4 characters, the marker and its last character.
C20_Witness ==
    /\ BudgetFired
    /\ budgetMax = 2
    /\ Len(budgetContent) = 9
    /\ HeadLen(budgetMax) = 4
    /\ TailLen(budgetMax) = 1
    /\ Len(budgetResult) = 5 + Len(TRUNCATION_MARKER)


(***************************************************************************)
(* Vocabulary of the composition properties.                               *)
(***************************************************************************)
\* The invocation went on to build the messages for the upstream.
MessagesBuilt ==
    pc = "returned" /\ (netCalls = 1 \/ promise.state = "rejected")

\* selectedText is a string with a character that is not white space.
SelectionPresent ==
    /\ ParsedDoc.selectedText.t = "str"
    /\ \E i \in 1..Len(ParsedDoc.selectedText.s) :
         ParsedDoc.selectedText.s[i] \notin WhiteSpace

UserContent == bodyPayload.messages[2].content

InSelectionMode == StartsWith(UserContent, SEL_A)
InDocumentMode == StartsWith(UserContent, DOC_A)

(***************************************************************************)
(* C14: an invocation that builds the messages uses exactly one of the two *)
(* composition modes: selection mode if and only if selectedText is        *)
(* present and not blank after trimming, document mode otherwise; in       *)
(* selection mode the user message holds the selected text verbatim        *)
(* between quotes; the message list is the system message followed by the  *)
(* user message.                                                           *)
(***************************************************************************)
C14_OneCompositionMode ==
    MessagesBuilt =>
      /\ Len(bodyPayload.messages) = 2
      /\ bodyPayload.messages[1] = [role |-> "system", content |-> systemPrompt]
      /\ bodyPayload.messages[2].role = "user"
      /\ InSelectionMode /= InDocumentMode
      /\ InSelectionMode <=> SelectionPresent
      /\ SelectionPresent =>
           UserContent =
             SEL_A \o ParsedDoc.selectedText.s \o SEL_B \o ParsedDoc.prompt.s
               \o SEL_C \o ParsedDoc.markdown.s
      /\ SelectionPresent =>
           /\ SEL_A[Len(SEL_A)] = "\""
           /\ SEL_B[1] = "\""
      /\ ~SelectionPresent =>
           UserContent =
             DOC_A \o ParsedDoc.prompt.s \o DOC_B \o ParsedDoc.markdown.s

\* A selection with white space around it went into the user message as is.
C14_Witness ==
    /\ MessagesBuilt
    /\ netCalls = 1
    /\ ParsedDoc.selectedText = Str(<<" ", "T", "\"", " ">>)
    /\ InSelectionMode
    /\ ~InDocumentMode

\* A whitespace-only selection was composed in document mode.
C14_WitnessBlankSelection ==
    /\ MessagesBuilt
    /\ ParsedDoc.selectedText = Str(Blank)
    /\ InDocumentMode


(***************************************************************************)
(* Vocabulary of the reframing properties.                                 *)
(***************************************************************************)
LinesOf(chunk) == SplitLines(Utf8Decode(chunk))
LastLineOf(chunk) == LinesOf(chunk)[Len(LinesOf(chunk))]
FirstLineOf(chunk) == LinesOf(chunk)[1]

\* The frames of lines taken one by one, each on its own.
RECURSIVE FramesOfLines(_)
FramesOfLines(lines) ==
    IF lines = <<>> THEN <<>>
    ELSE ReframeLine(<<>>, Head(lines)) \o FramesOfLines(Tail(lines))

\* The frames of whole chunks, each line on its own.
FramesOfChunks(chunks) == FramesOfLines(ReceivedLines(chunks))

\* data: {"content":"<text>"} and a blank line, for a text without a
\* character that JSON escapes.
ContentFrame(text) ==
    FRAME_OPEN \o <<"\"">> \o text \o <<"\"">> \o FRAME_CLOSE

\* The line cut between chunk i and chunk i + 1 is a data line, cut inside
\* its payload, that would carry a text delta if it were whole.
CutInPayload(i) ==
    /\ i \in 1..(Len(received) - 1)
    /\ LET h == LastLineOf(received[i])
           t == FirstLineOf(received[i + 1])
       IN  /\ StartsWith(h, DATA_PREFIX)
           /\ Len(h) > Len(DATA_PREFIX)
           /\ t /= <<>>
           /\ ~ParseDelta(Trim(DropFirst(h, Len(DATA_PREFIX)))).ok
           /\ LET d == ParseDelta(Trim(DropFirst(h \o t, Len(DATA_PREFIX))))
              IN  d.ok /\ d.hasContent /\ d.content /= <<>>

(***************************************************************************)
(* C15: when a data line is split between two consecutive chunks inside    *)
(* its payload, neither fragment adds a frame to the output buffer, so the *)
(* text delta of that line is missing from the body, while the complete    *)
(* lines of both chunks (and of all other chunks) are reframed.            *)
(***************************************************************************)
C15_SplitLineIsDropped ==
    res.status = 200 =>
      /\ \A i \in 1..(Len(received) - 1) :
           CutInPayload(i) =>
             LET headLines == LinesOf(received[i])
                 tailLines == LinesOf(received[i + 1])
             IN  /\ ReframeLine(<<>>, LastLineOf(received[i])) = <<>>
                 /\ ReframeLine(<<>>, FirstLineOf(received[i + 1])) = <<>>
                 /\ streamResponse =
                      FramesOfChunks(SubSeq(received, 1, i - 1))
                        \o FramesOfLines(SubSeq(headLines, 1, Len(headLines) - 1))
                        \o FramesOfLines(Tail(tailLines))
                        \o FramesOfChunks(SubSeq(received, i + 2, Len(received)))
                 /\ (res.state = "ended" /\ resolveCalls = 1) =>
                      Delivered = StreamEndResponse(streamResponse)
      /\ received = <<ChunkDeltaThenHead, ChunkTailThenDone>> =>
           /\ CutInPayload(1)
           /\ streamResponse = ContentFrame(<<"o", "k">>) \o DONE_FRAME
      /\ received = <<ChunkHead, ChunkTail>> =>
           /\ CutInPayload(1)
           /\ streamResponse = <<>>

\* The line carrying "yz" was cut; the body delivered at the end holds the
\* frame of "ok" and the terminal frame only.
C15_Witness ==
    /\ res.status = 200
    /\ res.state = "ended"
    /\ received = <<ChunkDeltaThenHead, ChunkTailThenDone>>
    /\ CutInPayload(1)
    /\ DeliveredStream
    /\ Delivered.body.text = ContentFrame(<<"o", "k">>) \o DONE_FRAME


\* The frames each chunk of complete lines stands for, written out:
\* ChunkDelta carries "hi", ChunkQuoted carries a"b, ChunkDone the sentinel,
\* and ChunkNoise a comment line, an empty payload, a delta without content
\* and a payload that is not JSON.
ExpectedFrames(chunk) ==
    CASE chunk = ChunkDelta -> ContentFrame(Hi)
      [] chunk = ChunkQuoted ->
           FRAME_OPEN \o <<"\"", "a", "\\", "\"", "b", "\"">> \o FRAME_CLOSE
      [] chunk = ChunkDone -> DONE_FRAME
      [] OTHER -> <<>>

RECURSIVE ExpectedBuffer(_)
ExpectedBuffer(chunks) ==
    IF chunks = <<>> THEN <<>>
    ELSE ExpectedFrames(Head(chunks)) \o ExpectedBuffer(Tail(chunks))

CompleteLineChunks == {ChunkDelta, ChunkQuoted, ChunkDone, ChunkNoise}

(***************************************************************************)
(* C16: for chunks of complete upstream lines the output buffer is exactly *)
(* the frames of the lines in their order: data: {"content":<delta>} and a *)
(* blank line for each delta with content, data: [DONE] and a blank line   *)
(* for the sentinel; lines without the data prefix, with an empty payload  *)
(* or without a delta content add nothing.  The delta "hi" followed by the *)
(* sentinel gives data: {"content":"hi"}, a blank line, data: [DONE], a    *)
(* blank line.                                                             *)
(***************************************************************************)
C16_FramesInOrder ==
    (res.status = 200 /\ \A i \in 1..Len(received) :
                           received[i] \in CompleteLineChunks) =>
      /\ streamResponse = ExpectedBuffer(received)
      /\ received = <<ChunkDelta, ChunkDone>> =>
           streamResponse =
             <<"d", "a", "t", "a", ":", " ", "{", "\"", "c", "o", "n", "t",
               "e", "n", "t", "\"", ":", "\"", "h", "i", "\"", "}", "\n",
               "\n", "d", "a", "t", "a", ":", " ", "[", "D", "O", "N", "E",
               "]", "\n", "\n">>
      /\ received = <<ChunkNoise>> => streamResponse = <<>>

\* The delta a"b and then the sentinel have been reframed.
C16_Witness ==
    /\ res.status = 200
    /\ received = <<ChunkQuoted, ChunkDone>>
    /\ streamResponse = ExpectedFrames(ChunkQuoted) \o DONE_FRAME
    /\ Len(streamResponse) = 40

\* The delta "hi" and then the sentinel have been reframed.
C16_WitnessHi ==
    /\ res.status = 200
    /\ received = <<ChunkDelta, ChunkDone>>
    /\ Len(streamResponse) = 38


\* A data line whose payload is neither empty nor the sentinel and fails to
\* decode.
FailsToDecode(line) ==
    /\ StartsWith(line, DATA_PREFIX)
    /\ LET data == Trim(DropFirst(line, Len(DATA_PREFIX)))
       IN  data /= <<>> /\ data /= DONE_SENTINEL /\ ~ParseDelta(data).ok

Decodes(line) == ~FailsToDecode(line)

\* Some line of the chunks fails to decode.
HasFailingLine(chunks) ==
    LET lines == ReceivedLines(chunks)
    IN  \E i \in 1..Len(lines) : FailsToDecode(lines[i])

(***************************************************************************)
(* C17: a data line whose payload fails to decode leaves the output buffer *)
(* as it was and settles nothing; the other lines of its chunk and the     *)
(* later chunks are reframed as usual, and the response at the end of the  *)
(* stream has statusCode 200 and every frame of the lines that decode.     *)
(***************************************************************************)
C17_DecodeFailureSkipsTheLine ==
    /\ []((res.status = 200 /\ HasFailingLine(received)) =>
            /\ streamResponse
                 = FramesOfLines(SelectSeq(ReceivedLines(received), Decodes))
            /\ received = <<ChunkBadThenDelta>> =>
                 streamResponse = ContentFrame(<<"g", "o">>)
            /\ received = <<ChunkDelta, ChunkBadThenDelta>> =>
                 streamResponse = ContentFrame(Hi) \o ContentFrame(<<"g", "o">>)
            /\ received = <<ChunkBadThenDelta, ChunkDone>> =>
                 streamResponse = ContentFrame(<<"g", "o">>) \o DONE_FRAME
            /\ (res.state = "flowing" /\ resolveCalls = 0) => Pending
            /\ (res.state = "ended" /\ resolveCalls = 1) =>
                 /\ DeliveredStream
                 /\ Delivered.statusCode = 200
                 /\ Delivered.body.text = streamResponse)
    /\ [][(received' /= received /\ res.status = 200
             /\ HasFailingLine(<<received'[Len(received')]>>)) =>
            /\ promise' = promise
            /\ resolveCalls' = resolveCalls
            /\ IsPrefixOf(streamResponse, streamResponse')
         ]_vars

\* A stream whose second chunk began with a payload that is not JSON ended
\* with statusCode 200 and the frames of both deltas.
C17_Witness ==
    /\ res.status = 200
    /\ res.state = "ended"
    /\ received = <<ChunkDelta, ChunkBadThenDelta>>
    /\ HasFailingLine(received)
    /\ DeliveredStream
    /\ Delivered.body.text = ContentFrame(Hi) \o ContentFrame(<<"g", "o">>)


\* No line received carries the sentinel.
NoSentinelSeen ==
    LET lines == ReceivedLines(received)
    IN  \A i \in 1..Len(lines) : ~IsSentinelLine(lines[i])

(***************************************************************************)
(* C18: when a 200 stream ends and no sentinel line was ever received, the *)
(* pending invocation is settled without error: statusCode 200, and a body *)
(* that is exactly the content frames accumulated, with no terminal frame. *)
(***************************************************************************)
C18_EndWithoutSentinelIsNotAnError ==
    (res.status = 200 /\ res.state = "ended" /\ resolveCalls = 1
       /\ NoSentinelSeen) =>
      /\ DeliveredStream
      /\ Delivered.statusCode = 200
      /\ Delivered.body.kind = "text"
      /\ Delivered.body.text = streamResponse
      /\ TerminalCount(Frames(Delivered.body.text)) = 0
      /\ \A i \in 1..Len(Frames(Delivered.body.text)) :
           IsContentFrame(Frames(Delivered.body.text)[i])
      /\ received = <<ChunkDelta>> =>
           Delivered.body.text = ContentFrame(Hi)
      /\ received = <<>> => Delivered.body.text = <<>>

\* The stream ended after one delta and no sentinel: 200 with one frame.
C18_Witness ==
    /\ res.status = 200
    /\ res.state = "ended"
    /\ received = <<ChunkDelta>>
    /\ NoSentinelSeen
    /\ DeliveredStream
    /\ Delivered.body.text = ContentFrame(Hi)


(***************************************************************************)
(* C19 as stated: no failure leaves the invocation.  The promise returned  *)
(* by the handler is never rejected; an exception after the OPTIONS        *)
(* branch, be it in validation and transformation (a usable prompt with    *)
(* the markdown field absent) or while the outbound request is created     *)
(* inside the promise (a credential that cannot be a header value), ends   *)
(* in a returned statusCode 500 response.                                  *)
(* Fails on the code: an exception thrown while the request is created     *)
(* rejects the returned promise, which the outer catch never sees.         *)
(***************************************************************************)
C19_NoFailurePropagates ==
    /\ promise.state /= "rejected"
    /\ (pc = "returned" /\ BodyParses /\ HasUsablePrompt
          /\ ParsedDoc.markdown.t = "absent") =>
         Settled /\ Delivered.statusCode = 500
    /\ (pc = "returned" /\ BodyParses /\ HasUsablePrompt
          /\ ParsedDoc.markdown.t = "str"
          /\ ParsedDoc.selectedText.t \in {"absent", "str"}
          /\ apiKey = "invalid-char") =>
         Settled /\ Delivered.statusCode = 500
====
